---- MODULE Spec2Model ----
(***************************************************************************)
(* panda-downloader: the two interactive front-ends                        *)
(*   panda_downlaoder_beta.py  (prog = "beta")                             *)
(*   test.py                   (prog = "test")                             *)
(* as one state machine.  The main thread's position is pc; every prompt   *)
(* (input()) and every call into yt_dlp is one step whose outcome is drawn *)
(* from a small set.  Text typed by the user is a sequence of one-character*)
(* strings, so that strip(), lower(), slicing, substring tests and int()   *)
(* are computed as Python computes them.  input() returns a line, is        *)
(* interrupted (KeyboardInterrupt) or meets the end of input (EOFError).   *)
(***************************************************************************)
EXTENDS Integers, Sequences, FiniteSets, TLC

(* ------------------------------ bounds -------------------------------- *)
\* user-confirmed retries of one call (recursion depth beyond the first call)
MaxRetry == 1
\* 'y' answers to "download another?" (main-loop iterations beyond the first)
MaxAgain == 1

(* --------------------------- text literals ---------------------------- *)
S_youtube_com == <<"y", "o", "u", "t", "u", "b", "e", ".", "c", "o", "m">>
S_youtu_be == <<"y", "o", "u", "t", "u", ".", "b", "e">>
S_playlist == <<"p", "l", "a", "y", "l", "i", "s", "t">>
S_best == <<"b", "e", "s", "t">>
S_worst == <<"w", "o", "r", "s", "t">>
S_1080p == <<"1", "0", "8", "0", "p">>
S_720p == <<"7", "2", "0", "p">>
S_480p == <<"4", "8", "0", "p">>
S_mp4 == <<"m", "p", "4">>
S_mkv == <<"m", "k", "v">>
S_webm == <<"w", "e", "b", "m">>
S_downloads == <<"d", "o", "w", "n", "l", "o", "a", "d", "s">>
S_Unknown == <<"U", "n", "k", "n", "o", "w", "n">>
S_y == <<"y">>

(* ----------------------- Python string operations --------------------- *)
RECURSIVE Str(_)
\* a character sequence as one string (what the f-strings and os.path.join build)
Str(s) == IF s = <<>> THEN "" ELSE Head(s) \o Str(Tail(s))

IsSpace(c) == c \in {" ", "\t", "\n"}

RECURSIVE LStrip(_)
LStrip(s) == IF s # <<>> /\ IsSpace(Head(s)) THEN LStrip(Tail(s)) ELSE s

RECURSIVE RStrip(_)
RStrip(s) ==
    IF s # <<>> /\ IsSpace(s[Len(s)]) THEN RStrip(SubSeq(s, 1, Len(s) - 1)) ELSE s

\* str.strip()
Strip(s) == RStrip(LStrip(s))

UpperAlpha ==
    <<"A", "B", "C", "D", "E", "F", "G", "H", "I", "J", "K", "L", "M",
      "N", "O", "P", "Q", "R", "S", "T", "U", "V", "W", "X", "Y", "Z">>

LowerAlpha ==
    <<"a", "b", "c", "d", "e", "f", "g", "h", "i", "j", "k", "l", "m",
      "n", "o", "p", "q", "r", "s", "t", "u", "v", "w", "x", "y", "z">>

LowerChar(c) ==
    IF \E i \in 1..Len(UpperAlpha) : UpperAlpha[i] = c
    THEN LowerAlpha[CHOOSE i \in 1..Len(UpperAlpha) : UpperAlpha[i] = c]
    ELSE c

\* str.lower()
Lower(s) == [i \in 1..Len(s) |-> LowerChar(s[i])]

\* sub in s
Contains(sub, s) ==
    \E i \in 0..(Len(s) - Len(sub)) : SubSeq(s, i + 1, i + Len(sub)) = sub

\* s[:-1]
DropLast(s) == SubSeq(s, 1, Len(s) - 1)

\* os.path.join(a, b) for a relative b, as one string
PathJoin(a, b) ==
    IF a = <<>> THEN b
    ELSE IF a[Len(a)] = "/" THEN Str(a) \o b
    ELSE Str(a) \o "/" \o b

(* --------------------------- Python values ---------------------------- *)
PyNone == [t |-> "none"]
PyStr(s) == [t |-> "str", s |-> s]
PyBool(b) == [t |-> "bool", b |-> b]
\* a dict, as a function from its keys
PyDict(d) == [t |-> "dict", d |-> d]

\* the truth value Python's `if v:` takes
Truthy(v) ==
    CASE v.t = "none" -> FALSE
      [] v.t = "str" -> v.s # <<>>
      [] v.t = "bool" -> v.b
      [] v.t = "dict" -> DOMAIN v.d # {}

\* d.get(key, default) on a dict value
DictGet(v, key, default) == IF key \in DOMAIN v.d THEN v.d[key] ELSE default

(* ------------------------------- state -------------------------------- *)
VARIABLES
    prog,           \* which front-end runs: "beta" or "test"
    pc,             \* the main thread's position
    url,            \* the URL of the current request
    playlist_flag,  \* beta main: what is_playlist() returned
    info,           \* beta main: what get_video_info() returned
    quality,        \* the chosen quality
    format_choice,  \* beta: container; test: Format.VIDEO / Format.AUDIO
    output_path,    \* the output directory
    answer,         \* the line last typed at a y/n or quality prompt
    spinners,       \* beta: the LoadingSpinner of each active get_video_info call
    pending,        \* beta: the return value, SystemExit or exception leaving
                    \* get_video_info
    dlDepth,        \* beta: active download_content calls
    video_qualities,\* test: qualities parsed for this request
    audio_qualities,
    format_type,    \* test: "video" (Format.VIDEO) or "audio" (Format.AUDIO)
    ydl_opts,       \* the options built for the download (a local of the download
                    \* call: empty outside it)
    console,        \* the last message printed by the main thread
    escaped,        \* the Exception that left the download call uncaught ("none" if
                    \* none did; a KeyboardInterrupt, which main handles, is not noted)
    exitCode,       \* "running", or the exit status of the process ("1" also for
                    \* an uncaught exception)
    iterations,     \* main-loop iterations started
    attempts,       \* ydl.download calls in this iteration
    fail            \* the failed call of this iteration not retried so far

vars == <<prog, pc, url, playlist_flag, info, quality, format_choice, output_path,
          answer, spinners, pending, dlDepth, video_qualities, audio_qualities,
          format_type, ydl_opts, console, escaped, exitCode, iterations, attempts, fail>>

betaVars == <<playlist_flag, info, spinners, pending, dlDepth>>
testVars == <<video_qualities, audio_qualities, format_type>>

Say(msg, arg) == [msg |-> msg, arg |-> arg]

(* --------------------------- what the user types ---------------------- *)
U_short == <<" ", "y", "o", "u", "t", "u", ".", "b", "e", "/", "a", " ">>
U_list == <<"y", "o", "u", "t", "u", "b", "e", ".", "c", "o", "m", "/", "P", "l", "a", "y", "L", "i", "s", "t">>
U_other == <<"v", "i", "m", "e", "o", ".", "c", "o", "m", "/", "a">>
U_case == <<"Y", "o", "u", "T", "u", "b", "e", ".", "c", "o", "m", "/", "a">>
P_out == <<" ", "o", "u", "t", " ">>

\* lines typed at a URL prompt
UrlInputs == {U_short, U_list, U_other, U_case, <<>>}
\* lines typed at a y/n prompt
YesNoInputs == {<<"y">>, <<"Y">>, <<"n">>, <<>>}
\* lines typed at a numbered menu
MenuInputs == {<<"1">>, <<"2">>, <<"3">>, <<"4">>, <<"5">>, <<"0">>, <<"2", " ">>}
\* lines typed at the output-directory prompt
PathInputs == {<<>>, P_out}

(* ---------------------- what the library answers ---------------------- *)
T_plain == <<"M", "y", " ", "M", "i", "x">>
T_bad == <<"a", "/", "b", ":", "c">>

\* what extract_info returns to the beta front-end when it returns
BetaInfoValues ==
    {PyNone, PyDict([title |-> T_plain, entries |-> <<1, 2>>]), PyDict([id |-> <<"x">>])}

(* ================= panda_downlaoder_beta.py : functions =============== *)

\* a mutant of ValidUrl: the line is lower-cased before the test
ValidUrl_CaseFold(u) ==
    Contains(S_youtube_com, Lower(u)) \/ Contains(S_youtu_be, Lower(u))

\* get_url's test of the stripped line
ValidUrl(u) == Contains(S_youtube_com, u) \/ Contains(S_youtu_be, u)

\* is_playlist(): its first statement is `return 'n'`; the prompt loop after
\* it is never reached
is_playlist == PyStr(<<"n">>)

\* select_quality's table: key -> value returned
qualities ==
    [k \in {<<"1">>, <<"2">>, <<"3">>, <<"4">>, <<"5">>} |->
        CASE k = <<"1">> -> S_best
          [] k = <<"2">> -> S_1080p
          [] k = <<"3">> -> S_720p
          [] k = <<"4">> -> S_480p
          [] k = <<"5">> -> S_worst]

\* select_format's table
formats ==
    [k \in {<<"1">>, <<"2">>, <<"3">>} |->
        CASE k = <<"1">> -> S_mp4
          [] k = <<"2">> -> S_mkv
          [] k = <<"3">> -> S_webm]

\* get_output_path
get_output_path(line) == IF Strip(line) # <<>> THEN Strip(line) ELSE S_downloads

\* a mutant of create_format_selector: the slice keeps the trailing 'p'
create_format_selector_KeepsP(q) ==
    IF q = S_best THEN "bestvideo+bestaudio/best"
    ELSE IF q = S_worst THEN "worstvideo+worstaudio/worst"
    ELSE IF q \in {S_1080p, S_720p, S_480p}
    THEN "bestvideo[height<=" \o Str(q) \o "]+bestaudio/best[height<=" \o Str(q) \o "]"
    ELSE "bestvideo+bestaudio/best"

create_format_selector(q) ==
    IF q = S_best THEN "bestvideo+bestaudio/best"
    ELSE IF q = S_worst THEN "worstvideo+worstaudio/worst"
    ELSE IF q \in {S_1080p, S_720p, S_480p}
    THEN LET height == Str(DropLast(q))
         IN "bestvideo[height<=" \o height \o "]+bestaudio/best[height<=" \o height \o "]"
    ELSE "bestvideo+bestaudio/best"

\* the options download_content builds
BetaYdlOpts(path, q, fmt, playlist) ==
    [format |-> create_format_selector(q),
     merge_output_format |-> Str(fmt),
     outtmpl |-> IF Truthy(playlist)
                 THEN PathJoin(path, "%(playlist_title)s/%(playlist_index)s-%(title)s.%(ext)s")
                 ELSE PathJoin(path, "%(title)s.%(ext)s"),
     playlist_options |-> Truthy(playlist),
     ignoreerrors |-> TRUE,
     postprocessors |-> <<>>]

\* `retry == 'y'` of get_video_info
WantsInfoRetry(line) == Lower(line) = S_y

\* a mutant of Confirmed: any answer but 'n' starts the download
Confirmed_NotN(line) == Lower(line) # <<"n">>

\* `input(...).lower() == 'y'` at "Start download?"
Confirmed(line) == Lower(line) = S_y

\* `retry == 'y'` of download_content
WantsDownloadRetry(line) == Lower(line) = S_y

\* a mutant of WantsAnother: any answer but 'n' starts another iteration
WantsAnother_NotN(line) == Lower(line) # <<"n">>

\* main: the loop goes on unless `input(...).lower() != 'y'`
WantsAnother(line) == Lower(line) = S_y

\* LoadingSpinner.__enter__: stop_spinner, whether spinner_thread runs, and
\* whether the spinner's line is on the terminal (which glyph of the cycle it
\* shows is left out)
NewSpinner == [stop |-> FALSE, alive |-> TRUE, shown |-> FALSE]

AliveSpinners == {i \in DOMAIN spinners : spinners[i].alive}

(* ================= panda_downlaoder_beta.py : steps =================== *)

\* main: get_url() until a line passes, then is_playlist()
B_GetUrl ==
    /\ prog = "beta" /\ pc = "b_url"
    /\ \E line \in UrlInputs :
         LET u == Strip(line) IN
         IF ValidUrl(u)
         THEN /\ url' = u
              /\ playlist_flag' = is_playlist
              /\ pc' = "b_info_enter"
              /\ UNCHANGED console
         ELSE /\ console' = Say("Invalid YouTube URL. Please try again.", "")
              /\ UNCHANGED <<url, playlist_flag, pc>>
    /\ UNCHANGED <<prog, info, quality, format_choice, output_path, answer, spinners,
                   pending, dlDepth, testVars, ydl_opts, escaped, exitCode,
                   iterations, attempts, fail>>

\* get_video_info: `with LoadingSpinner(...)`, __enter__ starts the thread
B_EnterSpinner ==
    /\ prog = "beta" /\ pc = "b_info_enter"
    /\ spinners' = Append(spinners, NewSpinner)
    /\ pc' = "b_fetch"
    /\ UNCHANGED <<prog, url, playlist_flag, info, quality, format_choice, output_path,
                   answer, pending, dlDepth, testVars, ydl_opts, console, escaped,
                   exitCode, iterations, attempts, fail>>

\* LoadingSpinner.spin: one turn of the loop of spinner thread i (write the
\* line), or leaving the loop (erase the line, the thread ends)
SpinnerStep ==
    /\ \E i \in AliveSpinners :
         spinners' =
           [spinners EXCEPT ![i] =
              IF spinners[i].stop
              THEN [@ EXCEPT !.alive = FALSE, !.shown = FALSE]
              ELSE [@ EXCEPT !.shown = TRUE]]
    /\ UNCHANGED <<prog, pc, url, playlist_flag, info, quality, format_choice,
                   output_path, answer, pending, dlDepth, testVars, ydl_opts, console,
                   escaped, exitCode, iterations, attempts, fail>>

\* get_video_info: ydl.extract_info returns
B_ExtractReturns ==
    /\ prog = "beta" /\ pc = "b_fetch"
    /\ \E v \in BetaInfoValues : pending' = [kind |-> "return", value |-> v]
    /\ pc' = "b_info_exit"
    /\ UNCHANGED <<prog, url, playlist_flag, info, quality, format_choice, output_path,
                   answer, spinners, dlDepth, testVars, ydl_opts, console, escaped,
                   exitCode, iterations, attempts, fail>>

\* get_video_info: ydl.extract_info raises
B_ExtractRaises ==
    /\ prog = "beta" /\ pc = "b_fetch"
    /\ \E exc \in {"DownloadError", "Exception", "KeyboardInterrupt"} :
         CASE exc = "DownloadError" ->
                /\ console' = Say("Error: Could not fetch video information.", "")
                /\ fail' = "info"
                /\ pc' = "b_retry_info"
                /\ UNCHANGED pending
           [] exc = "Exception" ->
                /\ console' = Say("An unexpected error occurred:", "")
                /\ fail' = "info"
                /\ pending' = [kind |-> "exit", value |-> "1"]
                /\ pc' = "b_info_exit"
           [] exc = "KeyboardInterrupt" ->
                /\ console' = Say("Operation cancelled by user.", "")
                /\ pending' = [kind |-> "exit", value |-> "0"]
                /\ pc' = "b_info_exit"
                /\ UNCHANGED fail
    /\ UNCHANGED <<prog, url, playlist_flag, info, quality, format_choice, output_path,
                   answer, spinners, dlDepth, testVars, ydl_opts, escaped, exitCode,
                   iterations, attempts>>

\* a mutant of B_RetryInfo: a declined retry returns None to main instead of
\* calling sys.exit(1)
B_RetryInfo_ReturnsNone ==
    /\ prog = "beta" /\ pc = "b_retry_info"
    /\ \E line \in YesNoInputs :
         /\ answer' = line
         /\ IF WantsInfoRetry(line)
            THEN /\ Len(spinners) <= MaxRetry
                 /\ fail' = "none"
                 /\ pc' = "b_info_enter"
                 /\ UNCHANGED pending
            ELSE /\ pending' = [kind |-> "return", value |-> PyNone]
                 /\ pc' = "b_info_exit"
                 /\ UNCHANGED fail
    /\ UNCHANGED <<prog, url, playlist_flag, info, quality, format_choice, output_path,
                   spinners, dlDepth, testVars, ydl_opts, console, escaped, exitCode,
                   iterations, attempts>>

\* get_video_info: "Would you like to retry?" inside the except clause
B_RetryInfo ==
    /\ prog = "beta" /\ pc = "b_retry_info"
    /\ \E line \in YesNoInputs :
         /\ answer' = line
         /\ IF WantsInfoRetry(line)
            THEN /\ Len(spinners) <= MaxRetry
                 /\ fail' = "none"
                 /\ pc' = "b_info_enter"
                 /\ UNCHANGED pending
            ELSE /\ pending' = [kind |-> "exit", value |-> "1"]
                 /\ pc' = "b_info_exit"
                 /\ UNCHANGED fail
    /\ UNCHANGED <<prog, url, playlist_flag, info, quality, format_choice, output_path,
                   spinners, dlDepth, testVars, ydl_opts, console, escaped, exitCode,
                   iterations, attempts>>

\* get_video_info: Ctrl-C at the retry prompt reaches `except KeyboardInterrupt`
B_RetryInfoInterrupt ==
    /\ prog = "beta" /\ pc = "b_retry_info"
    /\ console' = Say("Operation cancelled by user.", "")
    /\ pending' = [kind |-> "exit", value |-> "0"]
    /\ pc' = "b_info_exit"
    /\ UNCHANGED <<prog, url, playlist_flag, info, quality, format_choice, output_path,
                   answer, spinners, dlDepth, testVars, ydl_opts, escaped, exitCode,
                   iterations, attempts, fail>>

\* get_video_info: end of input at the retry prompt; the EOFError is raised
\* inside the except clause, which no handler of the function covers
B_RetryInfoEndOfInput ==
    /\ prog = "beta" /\ pc = "b_retry_info"
    /\ pending' = [kind |-> "raise", value |-> "EOFError"]
    /\ pc' = "b_info_exit"
    /\ UNCHANGED <<prog, url, playlist_flag, info, quality, format_choice, output_path,
                   answer, spinners, dlDepth, testVars, ydl_opts, console, escaped,
                   exitCode, iterations, attempts, fail>>

\* LoadingSpinner.__exit__ of the innermost active call: stop_spinner = True
B_SpinnerExit ==
    /\ prog = "beta" /\ pc = "b_info_exit"
    /\ spinners' = [spinners EXCEPT ![Len(spinners)].stop = TRUE]
    /\ pc' = "b_info_join"
    /\ UNCHANGED <<prog, url, playlist_flag, info, quality, format_choice, output_path,
                   answer, pending, dlDepth, testVars, ydl_opts, console, escaped,
                   exitCode, iterations, attempts, fail>>

\* LoadingSpinner.__exit__: spinner_thread.join() returns; the call is left, into
\* the `with` of the call that retried, or into main, or out of the process
B_SpinnerJoin ==
    /\ prog = "beta" /\ pc = "b_info_join"
    /\ ~spinners[Len(spinners)].alive
    /\ spinners' = SubSeq(spinners, 1, Len(spinners) - 1)
    /\ IF Len(spinners) > 1
       THEN /\ pc' = "b_info_exit"
            /\ UNCHANGED <<info, pending, exitCode>>
       ELSE IF pending.kind = "return"
       THEN /\ info' = pending.value
            /\ pending' = [kind |-> "none", value |-> PyNone]
            /\ pc' = "b_check_info"
            /\ UNCHANGED exitCode
       ELSE IF pending.kind = "exit"
       THEN /\ exitCode' = pending.value
            /\ pc' = "exited"
            /\ UNCHANGED <<info, pending>>
       ELSE /\ exitCode' = "1"
            /\ pc' = "crashed"
            /\ UNCHANGED <<info, pending>>
    /\ console' = IF Len(spinners) = 1 /\ pending.kind = "raise"
                  THEN Say("Traceback (most recent call last):", pending.value)
                  ELSE console
    /\ UNCHANGED <<prog, url, playlist_flag, quality, format_choice, output_path,
                   answer, dlDepth, testVars, ydl_opts, escaped, iterations, attempts,
                   fail>>

\* main: `if info:` and the title line
B_CheckInfo ==
    /\ prog = "beta" /\ pc = "b_check_info"
    /\ IF Truthy(info)
       THEN /\ console' = IF Truthy(playlist_flag)
                          THEN Say("Playlist:", Str(DictGet(info, "title", S_Unknown)))
                          ELSE Say("Video:", Str(DictGet(info, "title", S_Unknown)))
            /\ pc' = "b_quality"
       ELSE /\ pc' = "b_another"
            /\ UNCHANGED console
    /\ UNCHANGED <<prog, url, playlist_flag, info, quality, format_choice, output_path,
                   answer, spinners, pending, dlDepth, testVars, ydl_opts, escaped,
                   exitCode, iterations, attempts, fail>>

\* select_quality
B_SelectQuality ==
    /\ prog = "beta" /\ pc = "b_quality"
    /\ \E choice \in MenuInputs :
         IF choice \in DOMAIN qualities
         THEN /\ quality' = qualities[choice]
              /\ pc' = "b_format"
              /\ UNCHANGED console
         ELSE /\ console' = Say("Invalid choice. Please select 1-5.", "")
              /\ UNCHANGED <<quality, pc>>
    /\ UNCHANGED <<prog, url, playlist_flag, info, format_choice, output_path, answer,
                   spinners, pending, dlDepth, testVars, ydl_opts, escaped, exitCode,
                   iterations, attempts, fail>>

\* select_format
B_SelectFormat ==
    /\ prog = "beta" /\ pc = "b_format"
    /\ \E choice \in MenuInputs :
         IF choice \in DOMAIN formats
         THEN /\ format_choice' = formats[choice]
              /\ pc' = "b_output"
              /\ UNCHANGED console
         ELSE /\ console' = Say("Invalid choice. Please select 1-3.", "")
              /\ UNCHANGED <<format_choice, pc>>
    /\ UNCHANGED <<prog, url, playlist_flag, info, quality, output_path, answer,
                   spinners, pending, dlDepth, testVars, ydl_opts, escaped, exitCode,
                   iterations, attempts, fail>>

\* get_output_path, then main prints the summary
B_OutputPath ==
    /\ prog = "beta" /\ pc = "b_output"
    /\ \E line \in PathInputs : output_path' = get_output_path(line)
    /\ console' = Say("Download Summary: Type:",
                      IF Truthy(playlist_flag) THEN "Playlist" ELSE "Single Video")
    /\ pc' = "b_confirm"
    /\ UNCHANGED <<prog, url, playlist_flag, info, quality, format_choice, answer,
                   spinners, pending, dlDepth, testVars, ydl_opts, escaped, exitCode,
                   iterations, attempts, fail>>

\* main: "Start download? (y/n)"
B_Confirm ==
    /\ prog = "beta" /\ pc = "b_confirm"
    /\ \E line \in YesNoInputs :
         /\ answer' = line
         /\ IF Confirmed(line)
            THEN pc' = "b_mkdir" /\ dlDepth' = 1
            ELSE pc' = "b_another" /\ UNCHANGED dlDepth
    /\ UNCHANGED <<prog, url, playlist_flag, info, quality, format_choice, output_path,
                   spinners, pending, testVars, ydl_opts, console, escaped, exitCode,
                   iterations, attempts, fail>>

\* download_content: Path(output_path).mkdir(...) and the options; mkdir is
\* outside the try, so what it raises leaves download_content and main
B_Mkdir ==
    /\ prog = "beta" /\ pc = "b_mkdir"
    /\ \E made \in BOOLEAN :
         IF made
         THEN /\ ydl_opts' = BetaYdlOpts(output_path, quality, format_choice, playlist_flag)
              /\ pc' = "b_download"
              /\ UNCHANGED <<escaped, exitCode, console, dlDepth>>
         ELSE /\ escaped' = "OSError"
              /\ console' = Say("Traceback (most recent call last):", "OSError")
              /\ exitCode' = "1"
              /\ dlDepth' = 0
              /\ pc' = "crashed"
              /\ UNCHANGED ydl_opts
    /\ UNCHANGED <<prog, url, playlist_flag, info, quality, format_choice, output_path,
                   answer, spinners, pending, testVars, iterations, attempts, fail>>

\* download_content: YoutubeDL(ydl_opts).download([url]) returns an error code
B_DownloadReturns ==
    /\ prog = "beta" /\ pc = "b_download"
    /\ \E error_code \in {0, 1} :
         IF error_code = 0
         THEN /\ console' = Say("Download completed successfully!", "")
              /\ UNCHANGED fail
         ELSE /\ console' = Say("Some errors occurred during download. Error code:", "1")
              /\ fail' = "download"
    /\ attempts' = attempts + 1
    /\ dlDepth' = 0
    /\ ydl_opts' = <<>>
    /\ pc' = "b_another"
    /\ UNCHANGED <<prog, url, playlist_flag, info, quality, format_choice, output_path,
                   answer, spinners, pending, testVars, escaped, exitCode, iterations>>

\* download_content: the download raises an Exception
B_DownloadRaises ==
    /\ prog = "beta" /\ pc = "b_download"
    /\ console' = Say("An error occurred:", "")
    /\ fail' = "download"
    /\ attempts' = attempts + 1
    /\ pc' = "b_retry_dl"
    /\ UNCHANGED <<prog, url, playlist_flag, info, quality, format_choice, output_path,
                   answer, spinners, pending, dlDepth, testVars, ydl_opts, escaped,
                   exitCode, iterations>>

\* download_content: "Would you like to retry?"; 'y' calls download_content again
B_RetryDownload ==
    /\ prog = "beta" /\ pc = "b_retry_dl"
    /\ \E line \in YesNoInputs :
         /\ answer' = line
         /\ IF WantsDownloadRetry(line)
            THEN /\ dlDepth <= MaxRetry
                 /\ dlDepth' = dlDepth + 1
                 /\ fail' = "none"
                 /\ pc' = "b_mkdir"
                 /\ UNCHANGED ydl_opts
            ELSE /\ dlDepth' = 0
                 /\ ydl_opts' = <<>>
                 /\ pc' = "b_another"
                 /\ UNCHANGED fail
    /\ UNCHANGED <<prog, url, playlist_flag, info, quality, format_choice, output_path,
                   spinners, pending, testVars, console, escaped, exitCode, iterations,
                   attempts>>

\* main: "Download another video/playlist? (y/n)"
B_Another ==
    /\ prog = "beta" /\ pc = "b_another"
    /\ \E line \in YesNoInputs :
         /\ answer' = line
         /\ IF WantsAnother(line)
            THEN /\ iterations <= MaxAgain
                 /\ iterations' = iterations + 1
                 /\ attempts' = 0
                 /\ fail' = "none"
                 /\ console' = Say("YouTube Video/Playlist Downloader", "")
                 /\ pc' = "b_url"
                 /\ UNCHANGED exitCode
            ELSE /\ console' = Say("Thank you for using YouTube Downloader!", "")
                 /\ exitCode' = "0"
                 /\ pc' = "done"
                 /\ UNCHANGED <<iterations, attempts, fail>>
    /\ UNCHANGED <<prog, url, playlist_flag, info, quality, format_choice, output_path,
                   spinners, pending, dlDepth, testVars, ydl_opts, escaped>>

\* where the beta main thread waits outside get_video_info: prompts and the download
BetaBlocking ==
    {"b_url", "b_quality", "b_format", "b_output", "b_confirm", "b_download",
     "b_retry_dl", "b_another"}

\* main: `except KeyboardInterrupt` around the loop; a Ctrl-C during the
\* download passes download_content's `except Exception` on its way here
B_Interrupt ==
    /\ prog = "beta" /\ pc \in BetaBlocking
    /\ console' = Say("Download cancelled by user.", "")
    /\ exitCode' = "0"
    /\ dlDepth' = 0
    /\ pc' = "exited"
    /\ UNCHANGED <<prog, url, playlist_flag, info, quality, format_choice, output_path,
                   answer, spinners, pending, testVars, ydl_opts, escaped, iterations,
                   attempts, fail>>

\* the prompts of the beta front-end outside get_video_info
BetaPrompts ==
    {"b_url", "b_quality", "b_format", "b_output", "b_confirm", "b_retry_dl", "b_another"}

\* end of input at a prompt: main catches only KeyboardInterrupt, so the
\* EOFError ends the process with a traceback
B_EndOfInput ==
    /\ prog = "beta" /\ pc \in BetaPrompts
    /\ escaped' = IF pc = "b_retry_dl" THEN "EOFError" ELSE escaped
    /\ console' = Say("Traceback (most recent call last):", "EOFError")
    /\ exitCode' = "1"
    /\ dlDepth' = 0
    /\ pc' = "crashed"
    /\ UNCHANGED <<prog, url, playlist_flag, info, quality, format_choice, output_path,
                   answer, spinners, pending, testVars, ydl_opts, iterations, attempts,
                   fail>>

(* ========================= test.py : functions ======================== *)

Digits == <<"0", "1", "2", "3", "4", "5", "6", "7", "8", "9">>

IsDigit(c) == \E d \in 1..Len(Digits) : Digits[d] = c

DigitValue(c) == (CHOOSE d \in 1..Len(Digits) : Digits[d] = c) - 1

RECURSIVE IntStr(_)
\* f'{n}' for n >= 0
IntStr(n) == IF n < 10 THEN <<Digits[n + 1]>> ELSE Append(IntStr(n \div 10), Digits[(n % 10) + 1])

RECURSIVE DigitsValue(_)
DigitsValue(s) ==
    IF s = <<>> THEN 0 ELSE 10 * DigitsValue(DropLast(s)) + DigitValue(s[Len(s)])

\* int(s): surrounding whitespace and one sign are accepted; anything else is
\* a ValueError (ok = FALSE)
ParseInt(s) ==
    LET t == Strip(s)
        signed == t # <<>> /\ t[1] \in {"+", "-"}
        body == IF signed THEN Tail(t) ELSE t
    IN IF body # <<>> /\ \A i \in 1..Len(body) : IsDigit(body[i])
       THEN [ok |-> TRUE,
             val |-> IF signed /\ t[1] = "-" THEN 0 - DigitsValue(body) ELSE DigitsValue(body)]
       ELSE [ok |-> FALSE, val |-> 0]

\* list[i]: a negative i counts from the end; outside both ranges an IndexError
PyIndex(list, i) ==
    IF 0 <= i /\ i < Len(list) THEN [ok |-> TRUE, val |-> list[i + 1]]
    ELSE IF i < 0 /\ 0 - i <= Len(list) THEN [ok |-> TRUE, val |-> list[Len(list) + i + 1]]
    ELSE [ok |-> FALSE, val |-> <<>>]

RECURSIVE SortedDesc(_)
\* sorted(list(S), key=lambda x: int(x[:-1]), reverse=True)
SortedDesc(S) ==
    IF S = {} THEN <<>>
    ELSE LET top == CHOOSE x \in S :
                      \A y \in S : ParseInt(DropLast(x)).val >= ParseInt(DropLast(y)).val
         IN <<top>> \o SortedDesc(S \ {top})

\* _parse_formats; height = 0 stands for a missing height, abr10 is the bitrate
\* in tenths of kbps, so that int(abr) is abr10 \div 10
_parse_formats(fs) ==
    LET video == {Append(IntStr(fs[i].height), "p") :
                    i \in {j \in DOMAIN fs : /\ fs[j].vcodec # "none"
                                             /\ fs[j].acodec # "none"
                                             /\ fs[j].height # 0}}
        audio == {Append(IntStr(fs[i].abr10 \div 10), "k") :
                    i \in {j \in DOMAIN fs : /\ fs[j].acodec # "none"
                                             /\ fs[j].vcodec = "none"
                                             /\ fs[j].abr10 # 0}}
    IN <<SortedDesc(video), SortedDesc(audio)>>

\* get_available_qualities, given what _get_info returned
get_available_qualities(v) ==
    IF Truthy(v) /\ "formats" \in DOMAIN v.d THEN _parse_formats(v.d["formats"])
    ELSE <<<<>>, <<>>>>

\* re.sub(r'[<>:"/\\|?*]', '_', title)
CleanTitle(title) ==
    [i \in 1..Len(title) |->
        IF title[i] \in {"<", ">", ":", "\"", "/", "\\", "|", "?", "*"} THEN "_" ELSE title[i]]

\* os.getcwd()
Cwd == <<"/", "w">>

\* _create_output_path, given what _get_info returned and whether makedirs raised
_create_output_path(u, v, made) ==
    LET is_pl == Contains(S_playlist, Lower(u))
        path == IF is_pl /\ Truthy(v)
                THEN Cwd \o <<"/">> \o CleanTitle(DictGet(v, "title", S_playlist))
                ELSE Cwd
    IN IF made THEN path ELSE Cwd

_get_format_string(q, ft) ==
    IF ft = "video"
    THEN "bestvideo[height<=" \o Str(DropLast(q)) \o "]+bestaudio/best[height<="
            \o Str(DropLast(q)) \o "]/best"
    ELSE "bestaudio/best"

_get_download_options(q, ft, path) ==
    [format |-> _get_format_string(q, ft),
     outtmpl |-> PathJoin(path, "%(title)s.%(ext)s"),
     postprocessors |->
        IF ft = "audio"
        THEN <<[key |-> "FFmpegExtractAudio", preferredcodec |-> "mp3",
                preferredquality |-> Str(DropLast(q))]>>
        ELSE <<>>]

\* get_download_options: the quality picked for the typed line from a
\* non-empty list
PickQuality(list, line) ==
    LET n == ParseInt(line)
        at == PyIndex(list, n.val - 1)
    IN IF n.ok /\ at.ok THEN at.val ELSE list[1]

(* ---------------------- what the library answers ---------------------- *)
Fmt(v, a, h, r) == [vcodec |-> v, acodec |-> a, height |-> h, abr10 |-> r]

\* what extract_info returns to test.py when it returns
TestInfoValues ==
    {PyDict([title |-> T_plain,
             formats |-> <<Fmt("avc1", "mp4a", 720, 0), Fmt("avc1", "mp4a", 1080, 0),
                           Fmt("avc1", "none", 2160, 0), Fmt("none", "opus", 0, 1289),
                           Fmt("none", "mp4a", 0, 480), Fmt("avc1", "mp4a", 720, 1280)>>]),
     PyDict([title |-> T_plain, formats |-> <<Fmt("vp9", "opus", 360, 0)>>]),
     PyDict([title |-> T_bad]),
     PyNone}

\* lines typed at test.py's quality prompt
QualityInputs ==
    {<<"1">>, <<"2">>, <<"3">>, <<"0">>, <<"-", "1">>, <<"-", "3">>,
     <<" ", "2", " ">>, <<"a", "b", "c">>, <<>>}

(* ============================ test.py : steps ========================= *)

\* get_download_options: "Enter URL: "; the line is taken as it is
T_EnterUrl ==
    /\ prog = "test" /\ pc = "t_url"
    /\ \E line \in UrlInputs : url' = line
    /\ pc' = "t_info1"
    /\ UNCHANGED <<prog, betaVars, quality, format_choice, output_path, answer, testVars,
                   ydl_opts, console, escaped, exitCode, iterations, attempts, fail>>

\* get_available_qualities: _get_info returns what extract_info returned, or
\* prints the exception and returns None
T_GetQualities ==
    /\ prog = "test" /\ pc = "t_info1"
    /\ \/ \E v \in TestInfoValues :
            /\ video_qualities' = get_available_qualities(v)[1]
            /\ audio_qualities' = get_available_qualities(v)[2]
            /\ UNCHANGED <<console, fail>>
       \/ /\ console' = Say("Error fetching video info:", "")
          /\ fail' = "info"
          /\ video_qualities' = get_available_qualities(PyNone)[1]
          /\ audio_qualities' = get_available_qualities(PyNone)[2]
    /\ pc' = "t_format"
    /\ UNCHANGED <<prog, betaVars, url, quality, format_choice, output_path, answer,
                   format_type, ydl_opts, escaped, exitCode, iterations, attempts>>

\* get_download_options: "Select format", print_qualities, and the default
\* when the list for the format is empty
T_SelectFormat ==
    /\ prog = "test" /\ pc = "t_format"
    /\ \E choice \in MenuInputs :
         LET ft == IF choice = <<"1">> THEN "video" ELSE "audio"
             offered == IF ft = "video" THEN video_qualities ELSE audio_qualities
         IN /\ format_type' = ft
            /\ IF offered = <<>>
               THEN /\ console' = Say("No quality information available. Using best quality.", "")
                    /\ quality' = S_best
                    /\ pc' = "t_info2"
               ELSE /\ console' = Say("Available Audio Qualities:", "")
                    /\ pc' = "t_quality"
                    /\ UNCHANGED quality
    /\ UNCHANGED <<prog, betaVars, url, format_choice, output_path, answer,
                   video_qualities, audio_qualities, ydl_opts, escaped, exitCode,
                   iterations, attempts, fail>>

\* the list the quality prompt offers
Offered == IF format_type = "video" THEN video_qualities ELSE audio_qualities

\* get_download_options: "Select quality (1-n)"
T_SelectQuality ==
    /\ prog = "test" /\ pc = "t_quality"
    /\ \E line \in QualityInputs :
         /\ answer' = line
         /\ quality' = PickQuality(Offered, line)
         /\ console' = IF ParseInt(line).ok /\ PyIndex(Offered, ParseInt(line).val - 1).ok
                       THEN console
                       ELSE Say("Invalid selection. Using best quality.", "")
    /\ pc' = "t_info2"
    /\ UNCHANGED <<prog, betaVars, url, format_choice, output_path, testVars, ydl_opts,
                   escaped, exitCode, iterations, attempts, fail>>

\* _create_output_path (its own _get_info call and os.makedirs), the
\* DownloadOptions, and download() up to the call of ydl.download
T_CreateOutputPath ==
    /\ prog = "test" /\ pc = "t_info2"
    /\ \E made \in BOOLEAN :
         \/ \E v \in TestInfoValues :
              /\ output_path' = _create_output_path(url, v, made)
              /\ UNCHANGED fail
         \/ /\ output_path' = _create_output_path(url, PyNone, made)
            /\ fail' = "info"
    /\ ydl_opts' = _get_download_options(quality, format_type, output_path')
    /\ console' = Say("Starting download...", "")
    /\ pc' = "t_download"
    /\ UNCHANGED <<prog, betaVars, url, quality, format_choice, answer, testVars,
                   escaped, exitCode, iterations, attempts>>

\* YouTubeDownloader.download: ydl.download returns, or raises and is caught
T_Download ==
    /\ prog = "test" /\ pc = "t_download"
    /\ \E raised \in BOOLEAN :
         IF raised
         THEN /\ console' = Say("Error during download:", "")
              /\ fail' = "download"
         ELSE UNCHANGED <<console, fail>>
    /\ attempts' = attempts + 1
    /\ ydl_opts' = <<>>
    /\ pc' = "t_another"
    /\ UNCHANGED <<prog, betaVars, url, quality, format_choice, output_path, answer,
                   testVars, escaped, exitCode, iterations>>

\* main: "Download another? (y/n)"
T_Another ==
    /\ prog = "test" /\ pc = "t_another"
    /\ \E line \in YesNoInputs :
         /\ answer' = line
         /\ IF WantsAnother(line)
            THEN /\ iterations <= MaxAgain
                 /\ iterations' = iterations + 1
                 /\ attempts' = 0
                 /\ fail' = "none"
                 /\ pc' = "t_url"
                 /\ UNCHANGED exitCode
            ELSE /\ exitCode' = "0"
                 /\ pc' = "done"
                 /\ UNCHANGED <<iterations, attempts, fail>>
    /\ UNCHANGED <<prog, betaVars, url, quality, format_choice, output_path, testVars,
                   ydl_opts, console, escaped>>

\* where test.py's main thread waits: prompts and library calls
TestBlocking == {"t_url", "t_info1", "t_format", "t_quality", "t_info2", "t_download",
                 "t_another"}

\* main: `except KeyboardInterrupt: ... break`; no `except Exception` on the
\* way catches a Ctrl-C
T_Interrupt ==
    /\ prog = "test" /\ pc \in TestBlocking
    /\ console' = Say("Download cancelled by user", "")
    /\ exitCode' = "0"
    /\ pc' = "done"
    /\ UNCHANGED <<prog, betaVars, url, quality, format_choice, output_path, answer,
                   testVars, ydl_opts, escaped, iterations, attempts, fail>>

\* the prompts of test.py
TestPrompts == {"t_url", "t_format", "t_quality", "t_another"}

\* main: `except Exception as e: ... continue`; what reaches it is the
\* EOFError of a prompt at the end of input (every library call has its own
\* handler), and the loop starts over without asking "Download another?"
T_EndOfInput ==
    /\ prog = "test" /\ pc \in TestPrompts
    /\ iterations <= MaxAgain
    /\ console' = Say("An error occurred:", "EOF when reading a line")
    /\ iterations' = iterations + 1
    /\ attempts' = 0
    /\ fail' = "none"
    /\ pc' = "t_url"
    /\ UNCHANGED <<prog, betaVars, url, quality, format_choice, output_path, answer,
                   testVars, ydl_opts, escaped, exitCode>>

(* ============================ the state machine ======================= *)

Init ==
    /\ prog \in {"beta", "test"}
    /\ pc = IF prog = "beta" THEN "b_url" ELSE "t_url"
    /\ url = <<>>
    /\ playlist_flag = PyNone
    /\ info = PyNone
    /\ quality = <<>>
    /\ format_choice = <<>>
    /\ output_path = <<>>
    /\ answer = <<>>
    /\ spinners = <<>>
    /\ pending = [kind |-> "none", value |-> PyNone]
    /\ dlDepth = 0
    /\ video_qualities = <<>>
    /\ audio_qualities = <<>>
    /\ format_type = "unset"
    /\ ydl_opts = <<>>
    /\ console = IF prog = "beta" THEN Say("YouTube Video/Playlist Downloader", "")
                 ELSE Say("YouTube Downloader", "")
    /\ escaped = "none"
    /\ exitCode = "running"
    /\ iterations = 1
    /\ attempts = 0
    /\ fail = "none"

Next ==
    \/ B_GetUrl
    \/ B_EnterSpinner
    \/ SpinnerStep
    \/ B_ExtractReturns
    \/ B_ExtractRaises
    \/ B_RetryInfo
    \/ B_RetryInfoInterrupt
    \/ B_RetryInfoEndOfInput
    \/ B_SpinnerExit
    \/ B_SpinnerJoin
    \/ B_CheckInfo
    \/ B_SelectQuality
    \/ B_SelectFormat
    \/ B_OutputPath
    \/ B_Confirm
    \/ B_Mkdir
    \/ B_DownloadReturns
    \/ B_DownloadRaises
    \/ B_RetryDownload
    \/ B_Another
    \/ B_Interrupt
    \/ B_EndOfInput
    \/ T_EnterUrl
    \/ T_GetQualities
    \/ T_SelectFormat
    \/ T_SelectQuality
    \/ T_CreateOutputPath
    \/ T_Download
    \/ T_Another
    \/ T_Interrupt
    \/ T_EndOfInput

Spec == Init /\ [][Next]_vars

(* =============================== claims =============================== *)

\* the host test the specification asks of a URL
HostOk(u) == Contains(S_youtube_com, u) \/ Contains(S_youtu_be, u)

\* the main thread is inside a call of extract_info or download
AtLibrary == pc \in {"b_fetch", "b_download", "t_info1", "t_info2", "t_download"}

\* beta: positions main reaches only with the URL get_url returned
BetaAfterUrl ==
    {"b_info_enter", "b_fetch", "b_retry_info", "b_info_exit", "b_info_join",
     "b_check_info", "b_quality", "b_format", "b_output", "b_confirm", "b_mkdir",
     "b_download", "b_retry_dl", "b_another"}

\* a download has been started for the current request
Downloading == pc \in {"b_mkdir", "b_download", "b_retry_dl", "t_download"}

\* C1 (as stated): in both front-ends a URL without 'youtube.com' and without
\* 'youtu.be' never reaches extract_info or download.
C1_Orig == AtLibrary => HostOk(url)

\* C1 (amended): in panda_downlaoder_beta.py every URL get_url returned, and
\* so every URL main holds after the prompt and hands to extract_info or
\* download, contains 'youtube.com' or 'youtu.be'; a line without them leaves
\* main at the URL prompt.
C1_BetaUrlValid ==
    prog = "beta" =>
        /\ url # <<>> => HostOk(url)
        /\ pc \in BetaAfterUrl => HostOk(url)

\* C1 witness: get_url rejected a line, then accepted one, and main is in
\* extract_info with it.
C1_Witness ==
    /\ prog = "beta" /\ pc = "b_fetch"
    /\ console.msg = "Invalid YouTube URL. Please try again."
    /\ HostOk(url)

\* C2 (as stated): whatever raises inside the download call (directory
\* creation and retries included), no exception leaves it, and the error is on
\* the terminal when the call asks for a retry or has returned.
C2_Orig ==
    /\ escaped = "none"
    /\ pc = "b_retry_dl" => console.msg = "An error occurred:"
    /\ (prog = "test" /\ pc = "t_another" /\ fail = "download")
          => console.msg = "Error during download:"

\* C3 (as stated): a new iteration starts only on a 'y' to "download
\* another?"; any other answer ends the loop; and an iteration makes at most
\* one download attempt.
C3_Orig ==
    [][/\ iterations' # iterations
             => pc \in {"b_another", "t_another"} /\ Lower(answer') = S_y
       /\ (pc \in {"b_another", "t_another"} /\ pc' # pc /\ iterations' = iterations)
             => pc' \in {"done", "exited", "crashed"}
       /\ attempts' <= 1]_vars

\* C3 (amended): a new iteration starts only on a 'y' to "download another?"
\* or, in test.py, when main's `except Exception` handler has printed an
\* error (the input ended at a prompt); any other answer ends the loop;
\* test.py makes at most one download attempt per iteration, and the beta
\* front-end makes a further attempt only in a further call of
\* download_content, which only a 'y' at its retry prompt starts.
C3_OneIterationPerYes ==
    [][/\ iterations' # iterations
             => \/ pc \in {"b_another", "t_another"} /\ Lower(answer') = S_y
                \/ /\ prog = "test" /\ pc \in TestPrompts /\ pc' = "t_url"
                   /\ console'.msg = "An error occurred:"
       /\ (pc \in {"b_another", "t_another"} /\ pc' # pc /\ iterations' = iterations)
             => pc' \in {"done", "exited", "crashed"}
       /\ (attempts' # attempts /\ attempts' # 0)
             => attempts' = IF prog = "beta" THEN dlDepth ELSE 1
       /\ dlDepth' > 1 /\ dlDepth' # dlDepth
             => pc = "b_retry_dl" /\ Lower(answer') = S_y]_vars

\* C3 witness: the user declined "download another?" after the first
\* iteration, in which a retried download was attempted twice.
C3_Witness ==
    /\ pc = "done" /\ iterations = 1 /\ attempts = 2
    /\ Lower(answer) # S_y

\* C4 (as stated): after a failed info fetch or download that was not retried
\* the program is at the retry prompt or on its way out with status 1, never
\* anywhere else.
C4_Orig ==
    fail # "none" =>
        \/ pc \in {"b_retry_info", "b_retry_dl"}
        \/ pc \in {"b_info_exit", "b_info_join"} /\ pending.kind = "exit" /\ pending.value = "1"
        \/ pc = "exited" /\ exitCode = "1"

\* C4 (amended): every failure is printed where the call is made; only a
\* failed info fetch of get_video_info (beta) leads to a 'y'-confirmed retry
\* or out of the process (status 1, or 0 when the user interrupts the retry
\* prompt).  A beta download that failed (non-zero code, or retry declined)
\* and every failure in test.py go on to the next prompt.
C4_FailureHandling ==
    /\ (prog = "beta" /\ fail = "info") =>
          /\ pc \in {"b_retry_info", "b_info_exit", "b_info_join", "exited", "crashed"}
          /\ pc = "b_retry_info" => console.msg = "Error: Could not fetch video information."
          /\ pc \in {"b_info_exit", "b_info_join"} => pending.kind \in {"exit", "raise"}
          /\ pc = "exited" =>
                \/ exitCode = "1"
                \/ exitCode = "0" /\ console.msg = "Operation cancelled by user."
          /\ pc = "crashed" => exitCode = "1"
    /\ (prog = "beta" /\ fail = "download") =>
          /\ pc \in {"b_retry_dl", "b_another", "done", "exited", "crashed"}
          /\ pc = "b_retry_dl" => console.msg = "An error occurred:"
          /\ pc = "b_another" =>
                console.msg \in {"An error occurred:",
                                 "Some errors occurred during download. Error code:"}
    /\ (prog = "test" /\ fail = "info" /\ pc = "t_format") =>
          console.msg = "Error fetching video info:"
    /\ (prog = "test" /\ fail = "download" /\ pc = "t_another") =>
          console.msg = "Error during download:"
    /\ prog = "test" => exitCode \in {"running", "0"}

\* C4 witness: a beta download failed, was not retried, and main is back at
\* "download another?".
C4_Witness == prog = "beta" /\ pc = "b_another" /\ fail = "download"

\* a typed line selects an entry of a list of n qualities
ValidSelection(line, n) == ParseInt(line).ok /\ ParseInt(line).val \in 1..n

\* C5 (as stated): test.py, a non-empty list offered and an answer that is no
\* integer in 1..len(qualities): the quality chosen is the first of the list.
C5_Orig ==
    (prog = "test" /\ pc = "t_info2" /\ Offered # <<>>
       /\ ~ValidSelection(answer, Len(Offered)))
      => quality = Offered[1]

\* C6: beta, menu selection '2' (quality '1080p'): the 'format' handed to the
\* library is 'bestvideo[height<=1080]+bestaudio/best[height<=1080]',
\* whatever the URL, container, path, playlist flag, iteration or retry.
C6_FixedSelector ==
    /\ qualities[<<"2">>] = S_1080p
    /\ (prog = "beta" /\ pc \in {"b_download", "b_retry_dl"} /\ quality = qualities[<<"2">>])
          => ydl_opts.format = "bestvideo[height<=1080]+bestaudio/best[height<=1080]"

\* C6 witness: a retried download of a second iteration with quality '1080p'.
C6_Witness ==
    /\ prog = "beta" /\ pc = "b_download" /\ quality = S_1080p
    /\ iterations = 2 /\ dlDepth = 2

\* C7 (as stated): no download is started for a URL whose info fetch failed;
\* in the beta front-end it is started only with info and a 'y' confirmation.
C7_Orig ==
    Downloading =>
        /\ fail # "info"
        /\ prog = "beta" => Truthy(info) /\ Lower(answer) = S_y

\* C7 (amended): in panda_downlaoder_beta.py a download is started only after
\* an info fetch that returned info, the option prompts, and a 'y' at
\* "Start download?" (or at the download's own retry prompt); after a failed
\* fetch main goes to the retry prompt (DownloadError) or straight out of the
\* process (any other exception), and from the retry prompt to a new fetch on
\* 'y' or out of the process.
C7_BetaStateMachine ==
    /\ [](prog = "beta" /\ Downloading =>
            /\ fail # "info"
            /\ Truthy(info)
            /\ Lower(answer) = S_y
            /\ \E k \in DOMAIN qualities : quality = qualities[k]
            /\ \E k \in DOMAIN formats : format_choice = formats[k]
            /\ output_path # <<>>)
    /\ [][/\ (prog = "beta" /\ pc = "b_fetch" /\ fail' = "info") =>
                \/ pc' = "b_retry_info"
                \/ pc' = "b_info_exit" /\ pending'.kind = "exit"
          /\ (pc = "b_retry_info" /\ pc' # pc) =>
                \/ pc' = "b_info_enter" /\ Lower(answer') = S_y
                \/ pc' = "b_info_exit" /\ pending'.kind \in {"exit", "raise"}
          /\ (pc = "b_confirm" /\ pc' = "b_mkdir") => Lower(answer') = S_y]_vars

\* C7 witness: the beta front-end is downloading, in a second iteration.
C7_Witness ==
    /\ prog = "beta" /\ pc = "b_download" /\ iterations = 2
    /\ Truthy(info) /\ Lower(answer) = S_y

\* C8 (as stated): at most one spinner thread is alive, and one is alive only
\* while main is in extract_info or in the __exit__ that stops and joins it.
C8_Orig ==
    /\ Cardinality(AliveSpinners) <= 1
    /\ AliveSpinners # {} => pc \in {"b_fetch", "b_info_exit", "b_info_join"}

\* C9 (as stated): beta; no 'y' is ever given to the playlist question (it is
\* never asked), so every request is summarised and downloaded as a single
\* video.
C9_Orig ==
    prog = "beta" =>
        /\ pc = "b_confirm" => console.arg = "Single Video"
        /\ pc = "b_download" =>
              /\ ~ydl_opts.playlist_options
              /\ ydl_opts.outtmpl = PathJoin(output_path, "%(title)s.%(ext)s")

\* a non-empty string of decimal digits
IsNumber(s) == s # <<>> /\ \A i \in 1..Len(s) : IsDigit(s[i])

\* the numbers that qualities offered for this request carry
OfferedNumbers ==
    {n \in {DropLast(video_qualities[i]) : i \in DOMAIN video_qualities}
           \cup {DropLast(audio_qualities[i]) : i \in DOMAIN audio_qualities} :
       IsNumber(n)}

\* C10 (as stated): test.py; the options built for a download carry a decimal
\* number as the height bound (video) or as 'preferredquality' (audio).
C10_Orig ==
    (prog = "test" /\ pc = "t_download") =>
        IF format_type = "video"
        THEN \E n \in OfferedNumbers :
               ydl_opts.format = "bestvideo[height<=" \o Str(n)
                                    \o "]+bestaudio/best[height<=" \o Str(n) \o "]/best"
        ELSE \E n \in OfferedNumbers :
               ydl_opts.postprocessors[1].preferredquality = Str(n)

====
